---- MODULE Spec2Model ----
(***************************************************************************)
(* A model of the CODEOWNERS engine of codeowners-rs (src/src/lib.rs) and  *)
(* of the way src/src/main.rs drives it: Owner::parse and its Display,     *)
(* pattern_to_glob, Rule::parse, parse and Codeowners::matches.            *)
(*                                                                         *)
(* Strings are sequences of one-character strings, so that splitting,      *)
(* trimming, prefixing and glob matching are computed character by         *)
(* character as the code computes them.                                    *)
(***************************************************************************)
EXTENDS Integers, Sequences, FiniteSets, TLC

VARIABLES
    token,       \* SpecOwner: the argument of Owner::parse
    owner,       \* SpecOwner: the Owner it returned
    rendered,    \* SpecOwner: Display of that Owner
    line,        \* SpecRule: the argument of Rule::parse
    ruleResult,  \* SpecRule: the Result<Rule, ParseError> it returned
    pattern,     \* SpecGlob: the argument of pattern_to_glob
    matchers,    \* SpecGlob: the compiled matchers of that pattern
    text,        \* SpecParse, Spec: the argument of parse
    codeowners,  \* SpecParse, Spec: the Result<Codeowners, ParseError> it returned
    path,        \* SpecGlob, Spec: the argument of is_match / matches
    matched      \* SpecGlob, Spec: the result of that query

vars == <<token, owner, rendered, line, ruleResult, pattern, matchers,
          text, codeowners, path, matched>>

(***************************************************************************)
(* Bounds of the explored inputs.                                          *)
(***************************************************************************)
MaxTokenLen == 4
MaxLineLen == 5
MaxPatLen == 3
MaxPathLen == 4
MaxTextLen == 7
MaxRules == 2

(***************************************************************************)
(* Strings.                                                                *)
(***************************************************************************)
Strings(A, n) == UNION {[1..k -> A] : k \in 0..n}

\* str::starts_with(char)
StartsWith(s, c) == Len(s) > 0 /\ s[1] = c

\* str::ends_with(char)
EndsWith(s, c) == Len(s) > 0 /\ s[Len(s)] = c

\* str::contains(char)
Contains(s, c) == \E i \in 1..Len(s) : s[i] = c

\* char::is_whitespace, on the characters the model draws
IsWhitespace(c) == c \in {" ", "\t", "\n", "\r"}

\* What is not yet computed.
None == [tag |-> "None"]

(***************************************************************************)
(* Owner::parse and Display for Owner.                                     *)
(***************************************************************************)
OwnerParseContains(input) ==
    IF Contains(input, "@")
    THEN [kind |-> "Handle", value |-> input]
    ELSE [kind |-> "Email", value |-> input]

OwnerParse(input) ==
    IF StartsWith(input, "@")
    THEN [kind |-> "Handle", value |-> input]
    ELSE [kind |-> "Email", value |-> input]

OwnerFmt(o) == o.value

(***************************************************************************)
(* pattern_to_glob: the two glob expressions of a pattern.                 *)
(***************************************************************************)
PatternToGlobStripped(p) ==
    LET absolute == StartsWith(p, "/")
        pat == IF absolute THEN Tail(p) ELSE p
        sub == IF EndsWith(pat, "/") THEN pat \o <<"*", "*">>
                                     ELSE pat \o <<"/", "*", "*">>
    IN  <<pat, sub>>

PatternToGlobAlwaysPrefixed(p) ==
    LET pat == IF Contains(p, "/") THEN <<"*", "*", "/">> \o p ELSE p
        sub == IF EndsWith(pat, "/") THEN pat \o <<"*", "*">>
                                     ELSE pat \o <<"/", "*", "*">>
    IN  <<pat, sub>>

PatternToGlobNoSubtree(p) ==
    LET absolute == StartsWith(p, "/")
        pat == IF ~absolute /\ Contains(p, "/")
               THEN <<"*", "*", "/">> \o p ELSE p
    IN  IF EndsWith(pat, "/") THEN <<pat, pat \o <<"*", "*">> >> ELSE <<pat>>

PatternToGlob(p) ==
    LET absolute == StartsWith(p, "/")
        pat == IF ~absolute /\ Contains(p, "/")
               THEN <<"*", "*", "/">> \o p ELSE p
        sub == IF EndsWith(pat, "/") THEN pat \o <<"*", "*">>
                                     ELSE pat \o <<"/", "*", "*">>
    IN  <<pat, sub>>

(***************************************************************************)
(* globset::Glob::new with the default options, as Rule::parse calls it:   *)
(* the glob's tokens, or an error.  With the defaults literal_separator is *)
(* off, so * and ? match / too; a leading **/ is RecursivePrefix, a final  *)
(* /** is RecursiveSuffix (it accepts what is beneath, not the directory   *)
(* itself) and an inner /**/ is RecursiveZeroOrMore.  The model draws      *)
(* letters, . - / * and [ only; a [ is never closed, so it is the glob     *)
(* compile error.                                                          *)
(***************************************************************************)
Tok(t, c) == [t |-> t, c |-> c]
Literal(c) == Tok("Literal", c)
ZeroOrMore == Tok("ZeroOrMore", "")
RecursivePrefix == Tok("RecursivePrefix", "")
RecursiveSuffix == Tok("RecursiveSuffix", "")
RecursiveZeroOrMore == Tok("RecursiveZeroOrMore", "")

GlobError == <<[t |-> "Error", c |-> "["]>>

Front(s) == SubSeq(s, 1, Len(s) - 1)

\* The tokens of g from position i on, toks being those of g[1..i-1].
RECURSIVE GlobTokens(_, _, _)
GlobTokens(g, i, toks) ==
    IF i > Len(g) THEN toks
    ELSE IF g[i] = "[" THEN GlobError
    ELSE IF g[i] # "*" THEN GlobTokens(g, i + 1, Append(toks, Literal(g[i])))
    ELSE IF ~(i < Len(g) /\ g[i + 1] = "*")
         THEN GlobTokens(g, i + 1, Append(toks, ZeroOrMore))
    ELSE \* a `**` at i, i+1
        LET prevSep == i > 1 /\ g[i - 1] = "/"
            hasPeek == i + 2 <= Len(g)
            peekSep == hasPeek /\ g[i + 2] = "/"
            two == Append(Append(toks, ZeroOrMore), ZeroOrMore)
        IN  IF toks = <<>>
            THEN IF hasPeek /\ ~peekSep
                 THEN GlobTokens(g, i + 2, two)
                 ELSE GlobTokens(g, i + 3, Append(toks, RecursivePrefix))
            ELSE IF ~prevSep THEN GlobTokens(g, i + 2, two)
            ELSE IF hasPeek /\ ~peekSep THEN GlobTokens(g, i + 2, two)
            ELSE LET last == toks[Len(toks)]
                     repl == IF last.t \in {"RecursivePrefix", "RecursiveSuffix"}
                             THEN last
                             ELSE IF ~hasPeek THEN RecursiveSuffix
                                  ELSE RecursiveZeroOrMore
                 IN  GlobTokens(g, IF hasPeek THEN i + 3 ELSE i + 2,
                                Append(Front(toks), repl))

GlobNew(g) == GlobTokens(g, 1, <<>>)

(***************************************************************************)
(* GlobMatcher::is_match: the glob's regex, anchored at both ends, run on  *)
(* the whole path.  S is the set of lengths of the prefixes of s that the  *)
(* tokens so far can consume.                                              *)
(***************************************************************************)
StepToken(tok, S, s) ==
    LET n == Len(s)
    IN  CASE tok.t = "Literal" ->
               {p + 1 : p \in {q \in S : q < n /\ s[q + 1] = tok.c}}
          [] tok.t = "ZeroOrMore" ->
               {q \in 0..n : \E p \in S : q >= p}
          [] tok.t = "RecursivePrefix" ->
               S \cup {p + 1 : p \in {q \in S : q < n /\ s[q + 1] = "/"}}
                 \cup {q \in 1..n : s[q] = "/" /\ \E p \in S : q > p}
          [] tok.t = "RecursiveSuffix" ->
               {q \in 1..n : \E p \in S : p < q /\ s[p + 1] = "/"}
          [] tok.t = "RecursiveZeroOrMore" ->
               {q \in 1..n : \E p \in S : p < q /\ s[p + 1] = "/" /\
                    (q = p + 1 \/ (q >= p + 2 /\ s[q] = "/"))}
          [] OTHER -> {}

RECURSIVE Consume(_, _, _, _)
Consume(toks, i, S, s) ==
    IF i > Len(toks) THEN S
    ELSE Consume(toks, i + 1, StepToken(toks[i], S, s), s)

IsMatch(m, s) == Len(s) \in Consume(m.tokens, 1, {0}, s)

\* rule.matchers.iter().any(|matcher| matcher.is_match(path))
AnyMatcherFirstOnly(ms, s) == Len(ms) > 0 /\ IsMatch(ms[1], s)

AnyMatcher(ms, s) == \E k \in 1..Len(ms) : IsMatch(ms[k], s)

(***************************************************************************)
(* Rule::parse.                                                            *)
(***************************************************************************)
\* The index of the first c in s, 0 when there is none.
RECURSIVE IndexOf(_, _, _)
IndexOf(s, c, i) ==
    IF i > Len(s) THEN 0
    ELSE IF s[i] = c THEN i
    ELSE IndexOf(s, c, i + 1)

\* str::split(char): the parts between the occurrences of c, empty ones kept.
RECURSIVE Split(_, _)
Split(s, c) ==
    LET i == IndexOf(s, c, 1)
    IN  IF i = 0 THEN <<s>>
        ELSE <<SubSeq(s, 1, i - 1)>> \o Split(SubSeq(s, i + 1, Len(s)), c)

\* .filter(|part| !part.is_empty())
RECURSIVE NonEmpty(_)
NonEmpty(parts) ==
    IF parts = <<>> THEN <<>>
    ELSE IF Head(parts) = <<>> THEN NonEmpty(Tail(parts))
    ELSE <<Head(parts)>> \o NonEmpty(Tail(parts))

\* input.split(' ').filter(..).collect()
PartsKeepEmpty(input) == Split(input, " ")

Parts(input) == NonEmpty(Split(input, " "))

\* pattern_to_glob(..).map(Glob::new).map(compile_matcher).collect::<Result<..>>()
Matcher(g) == [glob |-> g, tokens |-> GlobNew(g)]

CompileMatchers(p) ==
    LET globs == PatternToGlob(p)
    IN  [k \in 1..Len(globs) |-> Matcher(globs[k])]

\* The first glob that failed to compile, 0 when all compiled.
FirstGlobError(ms) ==
    IF \E k \in 1..Len(ms) : ms[k].tokens = GlobError
    THEN CHOOSE k \in 1..Len(ms) :
            /\ ms[k].tokens = GlobError
            /\ \A j \in 1..(k - 1) : ms[j].tokens # GlobError
    ELSE 0

MissingOwners(input) == [kind |-> "MissingOwners", input |-> input]
GlobErr(g) == [kind |-> "Glob", input |-> g]
Err(e) == [ok |-> FALSE, err |-> e]
OkRule(r) == [ok |-> TRUE, rule |-> r]

RuleParseOneToken(input) ==
    LET parts == Parts(input)
    IN  IF Len(parts) < 1 THEN Err(MissingOwners(input))
        ELSE LET pat == parts[1]
                 ms == CompileMatchers(pat)
                 bad == FirstGlobError(ms)
             IN  IF bad # 0 THEN Err(GlobErr(ms[bad].glob))
                 ELSE OkRule([pattern |-> pat,
                              owners |-> [k \in 1..(Len(parts) - 1) |->
                                              OwnerParse(parts[k + 1])],
                              matchers |-> ms])

RuleParse(input) ==
    LET parts == Parts(input)
    IN  IF Len(parts) < 2 THEN Err(MissingOwners(input))
        ELSE LET pat == parts[1]
                 ms == CompileMatchers(pat)
                 bad == FirstGlobError(ms)
             IN  IF bad # 0 THEN Err(GlobErr(ms[bad].glob))
                 ELSE OkRule([pattern |-> pat,
                              owners |-> [k \in 1..(Len(parts) - 1) |->
                                              OwnerParse(parts[k + 1])],
                              matchers |-> ms])

(***************************************************************************)
(* parse.                                                                  *)
(***************************************************************************)
\* str::lines(): split at "\n", a final empty piece dropped, one trailing
\* "\r" of each line dropped.
StripCr(l) == IF EndsWith(l, "\r") THEN Front(l) ELSE l

Lines(input) ==
    LET pieces == Split(input, "\n")
        kept == IF pieces[Len(pieces)] = <<>> THEN Front(pieces) ELSE pieces
    IN  [k \in 1..Len(kept) |-> StripCr(kept[k])]

\* str::trim_start()
RECURSIVE TrimStart(_)
TrimStart(l) ==
    IF l # <<>> /\ IsWhitespace(Head(l)) THEN TrimStart(Tail(l)) ELSE l

\* .filter(|line| !line.is_empty()).filter(|line| !line.starts_with('#'))
RECURSIVE ContentLines(_)
ContentLines(ls) ==
    IF ls = <<>> THEN <<>>
    ELSE LET l == TrimStart(Head(ls))
         IN  IF l = <<>> \/ StartsWith(l, "#") THEN ContentLines(Tail(ls))
             ELSE <<l>> \o ContentLines(Tail(ls))

OkTable(rules) == [ok |-> TRUE, rules |-> rules]

\* .map(Rule::parse).collect::<Result<Vec<_>, _>>()?
RECURSIVE CollectSkipping(_, _)
CollectSkipping(ls, rules) ==
    IF ls = <<>> THEN OkTable(rules)
    ELSE LET r == RuleParse(Head(ls))
         IN  IF ~r.ok THEN CollectSkipping(Tail(ls), rules)
             ELSE CollectSkipping(Tail(ls), Append(rules, r.rule))

RECURSIVE Collect(_, _)
Collect(ls, rules) ==
    IF ls = <<>> THEN OkTable(rules)
    ELSE LET r == RuleParse(Head(ls))
         IN  IF ~r.ok THEN r
             ELSE Collect(Tail(ls), Append(rules, r.rule))

Parse(input) == Collect(ContentLines(Lines(input)), <<>>)

(***************************************************************************)
(* Codeowners::matches.                                                    *)
(***************************************************************************)
NoOwners == [some |-> FALSE]
SomeOwners(os) == [some |-> TRUE, owners |-> os]

\* self.rules.iter().rev().find(..).map(|rule| rule.owners.as_slice())
RECURSIVE FindForward(_, _, _)
FindForward(rules, i, p) ==
    IF i > Len(rules) THEN NoOwners
    ELSE IF AnyMatcher(rules[i].matchers, p) THEN SomeOwners(rules[i].owners)
    ELSE FindForward(rules, i + 1, p)

MatchesForward(table, p) == FindForward(table.rules, 1, p)

RECURSIVE FindRev(_, _, _)
FindRev(rules, i, p) ==
    IF i = 0 THEN NoOwners
    ELSE IF AnyMatcher(rules[i].matchers, p) THEN SomeOwners(rules[i].owners)
    ELSE FindRev(rules, i - 1, p)

Matches(table, p) == FindRev(table.rules, Len(table.rules), p)

(***************************************************************************)
(* The inputs of the tests of lib.rs (test_github_example,                 *)
(* more_test_on_nixpkgs, test_parse_invalid_rule) and the paths the        *)
(* specification names beside them.                                        *)
(***************************************************************************)
PatStar ==
    <<"*">>
PatJs ==
    <<"*", ".", "j", "s">>
PatGo ==
    <<"*", ".", "g", "o">>
PatBuildLogs ==
    <<"/", "b", "u", "i", "l", "d", "/", "l", "o", "g", "s", "/">>
PatDocsStar ==
    <<"d", "o", "c", "s", "/", "*">>
PatApps ==
    <<"a", "p", "p", "s", "/">>
PatDocs ==
    <<"/", "d", "o", "c", "s", "/">>
PatLib ==
    <<"/", "l", "i", "b">>
PathSomething ==
    <<"s", "o", "m", "e", "t", "h", "i", "n", "g">>
PathIndexJs ==
    <<"i", "n", "d", "e", "x", ".", "j", "s">>
PathModGo ==
    <<"m", "o", "d", ".", "g", "o">>
PathBuildLogsFoobar ==
    <<"/", "b", "u", "i", "l", "d", "/", "l", "o", "g", "s", "/", "f",
      "o", "o", "b", "a", "r">>
PathSomewhereDocsReadme ==
    <<"s", "o", "m", "e", "w", "h", "e", "r", "e", "/", "d", "o", "c",
      "s", "/", "r", "e", "a", "d", "m", "e", ".", "m", "d">>
PathAnywhereAppsTest ==
    <<"a", "n", "y", "w", "h", "e", "r", "e", "/", "a", "p", "p", "s",
      "/", "t", "e", "s", "t">>
PathAppsTest ==
    <<"a", "p", "p", "s", "/", "t", "e", "s", "t">>
PathDocsFooBarBaz ==
    <<"/", "d", "o", "c", "s", "/", "f", "o", "o", "/", "b", "a", "r",
      "/", "b", "a", "z">>
PathLib ==
    <<"/", "l", "i", "b">>
PathLibSystems ==
    <<"/", "l", "i", "b", "/", "s", "y", "s", "t", "e", "m", "s">>
PathLibFoo ==
    <<"/", "l", "i", "b", "/", "f", "o", "o">>
PathAppsxTest ==
    <<"a", "p", "p", "s", "x", "/", "t", "e", "s", "t">>
PathSomewhereDocsFoo ==
    <<"s", "o", "m", "e", "w", "h", "e", "r", "e", "/", "d", "o", "c",
      "s", "/", "f", "o", "o">>
PathDocsGettingStarted ==
    <<"d", "o", "c", "s", "/", "g", "e", "t", "t", "i", "n", "g", "-",
      "s", "t", "a", "r", "t", "e", "d", ".", "m", "d">>
PathDocsBuildAppTroubleshooting ==
    <<"d", "o", "c", "s", "/", "b", "u", "i", "l", "d", "-", "a", "p",
      "p", "/", "t", "r", "o", "u", "b", "l", "e", "s", "h", "o", "o",
      "t", "i", "n", "g", ".", "m", "d">>
LineStar ==
    <<"*", " ", " ", " ", " ", " ", " ", " ", "@", "g", "l", "o", "b",
      "a", "l", "-", "o", "w", "n", "e", "r", "1", " ", "@", "g", "l",
      "o", "b", "a", "l", "-", "o", "w", "n", "e", "r", "2">>
LineJs ==
    <<"*", ".", "j", "s", " ", " ", " ", " ", "@", "j", "s", "-", "o",
      "w", "n", "e", "r">>
LineGo ==
    <<"*", ".", "g", "o", " ", "d", "o", "c", "s", "@", "e", "x", "a",
      "m", "p", "l", "e", ".", "c", "o", "m">>
LineBuildLogs ==
    <<"/", "b", "u", "i", "l", "d", "/", "l", "o", "g", "s", "/", " ",
      "@", "d", "o", "c", "t", "o", "c", "a", "t">>
LineDocsStar ==
    <<"d", "o", "c", "s", "/", "*", " ", " ", "d", "o", "c", "s", "@",
      "e", "x", "a", "m", "p", "l", "e", ".", "c", "o", "m">>
LineApps ==
    <<"a", "p", "p", "s", "/", " ", "@", "o", "c", "t", "o", "c", "a",
      "t">>
LineDocs ==
    <<"/", "d", "o", "c", "s", "/", " ", "@", "d", "o", "c", "t", "o",
      "c", "a", "t">>
LineComment ==
    <<"#", " ", "T", "h", "i", "s", " ", "i", "s", " ", "a", " ", "c",
      "o", "m", "m", "e", "n", "t", ".">>
LineNoOwners ==
    <<"s", "o", "m", "e", "/", "s", "u", "b", "/", "p", "a", "t", "h">>

FixturePatterns ==
    {PatStar, PatJs, PatGo, PatBuildLogs, PatDocsStar, PatApps, PatDocs, PatLib}

FixturePaths ==
    {PathSomething,
     PathIndexJs,
     PathModGo,
     PathBuildLogsFoobar,
     PathSomewhereDocsReadme,
     PathAnywhereAppsTest,
     PathAppsTest,
     PathDocsFooBarBaz,
     PathLib,
     PathLibSystems,
     PathLibFoo,
     PathAppsxTest,
     PathSomewhereDocsFoo,
     PathDocsGettingStarted,
     PathDocsBuildAppTroubleshooting}

FixtureLines ==
    {LineStar,
     LineJs,
     LineGo,
     LineBuildLogs,
     LineDocsStar,
     LineApps,
     LineDocs,
     LineComment,
     LineNoOwners}

(***************************************************************************)
(* The inputs the specifications draw.                                     *)
(***************************************************************************)
TokenChars == {"@", "a", "/", "."}
LineChars == {"a", " ", "\t", "@", "/", "["}
PatternChars == {"a", "b", "/", "*"}
PathChars == {"a", "b", "/"}
TextChars == {"a", " ", "\n", "#"}

Tokens == Strings(TokenChars, MaxTokenLen)
RuleLines == Strings(LineChars, MaxLineLen)
Patterns == Strings(PatternChars, MaxPatLen) \cup FixturePatterns
Paths == Strings(PathChars, MaxPathLen) \cup FixturePaths
Texts == Strings(TextChars, MaxTextLen)

\* A CODEOWNERS file of the given lines, each ended by a line break.
RECURSIVE FileOf(_)
FileOf(ls) ==
    IF ls = <<>> THEN <<>>
    ELSE Head(ls) \o <<"\n">> \o FileOf(Tail(ls))

Files == {FileOf(ls) : ls \in Strings(FixtureLines, MaxRules)}

(***************************************************************************)
(* SpecOwner: Owner::parse on a token, then Display of the result.         *)
(***************************************************************************)
InitOwner ==
    /\ token \in Tokens
    /\ owner = None /\ rendered = None
    /\ line = <<>> /\ ruleResult = None
    /\ pattern = <<>> /\ matchers = <<>>
    /\ text = <<>> /\ codeowners = None
    /\ path = <<>> /\ matched = None

OwnerParseStep ==
    /\ owner = None
    /\ owner' = OwnerParse(token)
    /\ UNCHANGED <<token, rendered, line, ruleResult, pattern, matchers,
                   text, codeowners, path, matched>>

OwnerDisplayStep ==
    /\ owner # None
    /\ rendered = None
    /\ rendered' = [tag |-> "Text", value |-> OwnerFmt(owner)]
    /\ UNCHANGED <<token, owner, line, ruleResult, pattern, matchers,
                   text, codeowners, path, matched>>

NextOwner == OwnerParseStep \/ OwnerDisplayStep

SpecOwner == InitOwner /\ [][NextOwner]_vars

(***************************************************************************)
(* SpecRule: Rule::parse on a line.                                        *)
(***************************************************************************)
InitRule ==
    /\ line \in RuleLines
    /\ ruleResult = None
    /\ token = <<>> /\ owner = None /\ rendered = None
    /\ pattern = <<>> /\ matchers = <<>>
    /\ text = <<>> /\ codeowners = None
    /\ path = <<>> /\ matched = None

RuleParseStep ==
    /\ ruleResult = None
    /\ ruleResult' = RuleParse(line)
    /\ UNCHANGED <<token, owner, rendered, line, pattern, matchers,
                   text, codeowners, path, matched>>

NextRule == RuleParseStep

SpecRule == InitRule /\ [][NextRule]_vars

(***************************************************************************)
(* SpecGlob: pattern_to_glob and the compilation of its globs, then        *)
(* is_match of the compiled matchers on a path.                            *)
(***************************************************************************)
InitGlob ==
    /\ pattern \in Patterns
    /\ matchers = <<>>
    /\ path = <<>> /\ matched = None
    /\ token = <<>> /\ owner = None /\ rendered = None
    /\ line = <<>> /\ ruleResult = None
    /\ text = <<>> /\ codeowners = None

CompileStep ==
    /\ matchers = <<>>
    /\ matchers' = CompileMatchers(pattern)
    /\ UNCHANGED <<token, owner, rendered, line, ruleResult, pattern,
                   text, codeowners, path, matched>>

IsMatchStep ==
    /\ matchers # <<>>
    /\ matched = None
    /\ \E p \in Paths :
          /\ path' = p
          /\ matched' = [accepted |-> AnyMatcher(matchers, p)]
    /\ UNCHANGED <<token, owner, rendered, line, ruleResult, pattern,
                   matchers, text, codeowners>>

NextGlob == CompileStep \/ IsMatchStep

SpecGlob == InitGlob /\ [][NextGlob]_vars

(***************************************************************************)
(* SpecParse: parse on a file text.                                        *)
(***************************************************************************)
InitParse ==
    /\ text \in Texts
    /\ codeowners = None
    /\ token = <<>> /\ owner = None /\ rendered = None
    /\ line = <<>> /\ ruleResult = None
    /\ pattern = <<>> /\ matchers = <<>>
    /\ path = <<>> /\ matched = None

ParseStep ==
    /\ codeowners = None
    /\ codeowners' = Parse(text)
    /\ UNCHANGED <<token, owner, rendered, line, ruleResult, pattern,
                   matchers, text, path, matched>>

NextParse == ParseStep

SpecParse == InitParse /\ [][NextParse]_vars

(***************************************************************************)
(* Spec: main.rs.  The CODEOWNERS file is parsed once (main unwraps the    *)
(* result, so a parse error ends the program), then every changed file of  *)
(* every pull request is looked up with matches.                           *)
(***************************************************************************)
Init ==
    /\ text \in Files
    /\ codeowners = None
    /\ path = <<>> /\ matched = None
    /\ token = <<>> /\ owner = None /\ rendered = None
    /\ line = <<>> /\ ruleResult = None
    /\ pattern = <<>> /\ matchers = <<>>

Load ==
    /\ codeowners = None
    /\ codeowners' = Parse(text)
    /\ UNCHANGED <<token, owner, rendered, line, ruleResult, pattern,
                   matchers, text, path, matched>>

Query ==
    /\ codeowners # None
    /\ codeowners.ok
    /\ \E p \in FixturePaths :
          /\ path' = p
          /\ matched' = Matches(codeowners, p)
    /\ UNCHANGED <<token, owner, rendered, line, ruleResult, pattern,
                   matchers, text, codeowners>>

Next == Load \/ Query

Spec == Init /\ [][Next]_vars

(***************************************************************************)
(* What the properties are stated with: tokens, lines and occurrences     *)
(* given by their positions in the string, not by the code's loops.       *)
(***************************************************************************)
Min(S) == CHOOSE x \in S : \A y \in S : x <= y
Max(S) == CHOOSE x \in S : \A y \in S : x >= y

\* The k-th smallest element of a set of numbers.
Nth(S, k) == CHOOSE x \in S : Cardinality({y \in S : y <= x}) = k

\* Where a maximal run of characters outside Sep starts, and where the run
\* starting at i ends.
RunStarts(s, Sep) ==
    {i \in 1..Len(s) : s[i] \notin Sep /\ (i = 1 \/ s[i - 1] \in Sep)}
RunEnd(s, Sep, i) ==
    Max({j \in i..Len(s) : \A k \in i..j : s[k] \notin Sep})

\* The maximal runs of characters outside Sep, in order.
Runs(s, Sep) ==
    [k \in 1..Cardinality(RunStarts(s, Sep)) |->
        LET i == Nth(RunStarts(s, Sep), k)
        IN  SubSeq(s, i, RunEnd(s, Sep, i))]

IsPrefix(a, b) == Len(a) <= Len(b) /\ SubSeq(b, 1, Len(a)) = a

\* a occurs in b at position i.
OccursAt(a, b, i) ==
    i + Len(a) - 1 <= Len(b) /\ SubSeq(b, i, i + Len(a) - 1) = a

\* a occurs in b at the start of a path segment.
OccursAtSegment(a, b) ==
    \E i \in 1..Len(b) : (i = 1 \/ b[i - 1] = "/") /\ OccursAt(a, b, i)

IsLiteral(p) == ~Contains(p, "*") /\ ~Contains(p, "[")
Anchored(p) == StartsWith(p, "/")
AnyDepth == <<"*", "*", "/">>

\* The lines of a text that hold a rule, each from its first character that
\* is not whitespace to its end.
LineStarts(t) == {i \in 1..Len(t) : i = 1 \/ t[i - 1] = "\n"}
LineEnd(t, i) == Max({j \in (i - 1)..Len(t) : \A k \in i..j : t[k] # "\n"})
FirstInk(t, i) ==
    LET ink == {j \in i..LineEnd(t, i) : ~IsWhitespace(t[j])}
    IN  IF ink = {} THEN 0 ELSE Min(ink)
RuleStarts(t) ==
    {j \in 1..Len(t) : t[j] # "#" /\
        \E i \in LineStarts(t) : FirstInk(t, i) = j}
RuleLinesOf(t) ==
    [k \in 1..Cardinality(RuleStarts(t)) |->
        LET j == Nth(RuleStarts(t), k)
        IN  SubSeq(t, j, LineEnd(t, j))]

Queried == matched # None

(***************************************************************************)
(* C1 (Spec).  Codeowners::matches returns the owners of the last rule of  *)
(* the table that has a matcher accepting the path, whatever earlier rules *)
(* match too, and None exactly when no rule has one.                       *)
(***************************************************************************)
MatchingRules ==
    {i \in 1..Len(codeowners.rules) :
        \E k \in 1..Len(codeowners.rules[i].matchers) :
            IsMatch(codeowners.rules[i].matchers[k], path)}

\* C1: matches returns the owners of the highest matching rule, None iff no rule matches.
LastMatchWins ==
    Queried =>
        /\ MatchingRules = {} <=> ~matched.some
        /\ MatchingRules # {} =>
              matched = SomeOwners(codeowners.rules[Max(MatchingRules)].owners)

LastMatchWinsWitness ==
    /\ Queried
    /\ matched.some
    /\ \E i, j \in MatchingRules :
          /\ i < j
          /\ codeowners.rules[i].owners # codeowners.rules[j].owners
          /\ matched.owners = codeowners.rules[j].owners

(***************************************************************************)
(* C2 (SpecRule).  A line with fewer than two tokens is rejected with      *)
(* MissingOwners carrying the whole line, and every Rule that Rule::parse  *)
(* returns has at least one owner.                                         *)
(***************************************************************************)
\* C2: fewer than two tokens give MissingOwners{the whole line}; an Ok rule has an owner.
MissingOwnersRejected ==
    ruleResult # None =>
        /\ Cardinality(RunStarts(line, {" "})) < 2 =>
              ruleResult = Err(MissingOwners(line))
        /\ ruleResult.ok => Len(ruleResult.rule.owners) >= 1

MissingOwnersWitness ==
    /\ ruleResult # None
    /\ Cardinality(RunStarts(line, {" "})) = 1
    /\ Contains(line, " ")
    /\ ruleResult = Err(MissingOwners(line))

(***************************************************************************)
(* C3 (SpecParse).  parse keeps the lines that, after their leading        *)
(* whitespace, are not empty and do not begin with #; it returns one Rule  *)
(* per such line in file order, or, when one of them fails Rule::parse,    *)
(* the error of the first that fails and no rules at all.                  *)
(***************************************************************************)
\* Rule::parse of each rule line of the text.
RuleResultsOf(t) ==
    LET ls == RuleLinesOf(t)
    IN  [k \in 1..Len(ls) |-> RuleParse(ls[k])]

\* C3: one Rule per rule line in file order, or the first failing line's error alone.
ParseAllOrFirstError ==
    codeowners # None =>
        LET rs == RuleResultsOf(text)
            failing == {k \in 1..Len(rs) : ~rs[k].ok}
        IN  IF failing = {}
            THEN /\ codeowners.ok
                 /\ Len(codeowners.rules) = Len(rs)
                 /\ \A k \in 1..Len(rs) : codeowners.rules[k] = rs[k].rule
            ELSE /\ ~codeowners.ok
                 /\ DOMAIN codeowners = {"ok", "err"}
                 /\ codeowners = rs[Min(failing)]

ParseAllOrFirstErrorWitness ==
    /\ codeowners # None
    /\ ~codeowners.ok
    /\ LET rs == RuleResultsOf(text)
       IN  Len(rs) >= 2 /\ rs[1].ok /\ ~rs[2].ok
    /\ \E i \in LineStarts(text) : FirstInk(text, i) > i

(***************************************************************************)
(* C4 (SpecRule).  As stated: the tokens of a content line are its        *)
(* maximal runs of non-whitespace characters, tabs separating as spaces    *)
(* do.  Of the code: they are its maximal runs of characters other than    *)
(* the space; the first is the pattern, unchanged, the others the owners   *)
(* in order, duplicates kept, none empty.                                  *)
(***************************************************************************)
IsContentLine(l) == l # <<>> /\ ~IsWhitespace(l[1]) /\ l[1] # "#"

TokensAre(Sep) ==
    (ruleResult # None /\ IsContentLine(line)) =>
        LET toks == Runs(line, Sep)
        IN  /\ (Len(toks) >= 2 /\ IsLiteral(toks[1])) => ruleResult.ok
            /\ ruleResult.ok =>
                  /\ ruleResult.rule.pattern = toks[1]
                  /\ Len(ruleResult.rule.owners) = Len(toks) - 1
                  /\ \A k \in 1..(Len(toks) - 1) :
                        /\ ruleResult.rule.owners[k].value = toks[k + 1]
                        /\ ruleResult.rule.owners[k].value # <<>>
                  /\ ruleResult.rule.pattern # <<>>

\* C4, as stated in the specification: tokens are separated by runs of spaces or tabs.
TokensSplitOnWhitespace == TokensAre({" ", "\t"})

\* C4, amended: tokens are separated by runs of spaces only; a tab stays in its token.
TokensSplitOnSpaces == TokensAre({" "})

TokensSplitOnSpacesWitness ==
    /\ ruleResult # None
    /\ ruleResult.ok
    /\ Contains(line, "\t")
    /\ Len(ruleResult.rule.owners) >= 1
    /\ Contains(ruleResult.rule.pattern, "\t")

(***************************************************************************)
(* C5 (SpecGlob).  A pattern beginning with / gets no any-depth prefix:    *)
(* its first glob is the pattern itself, it accepts only paths that begin  *)
(* with /, and a pattern without wildcards accepts exactly the paths it is *)
(* a leading part of.  /docs/ accepts /docs/foo/bar/baz and rejects        *)
(* somewhere/docs/foo.                                                     *)
(***************************************************************************)
UnderLiteral(p, s) ==
    IF EndsWith(p, "/") THEN IsPrefix(p, s)
    ELSE s = p \/ IsPrefix(p \o <<"/">>, s)

\* C5: a pattern beginning with / has no any-depth glob and accepts only paths under the root.
AnchoredOnlyFromRoot ==
    (Queried /\ Anchored(pattern)) =>
        /\ matchers[1].glob = pattern
        /\ \A k \in 1..Len(matchers) : ~IsPrefix(AnyDepth, matchers[k].glob)
        /\ matched.accepted => StartsWith(path, "/")
        /\ IsLiteral(pattern) => (matched.accepted <=> UnderLiteral(pattern, path))
        /\ (pattern = PatDocs /\ path = PathDocsFooBarBaz) => matched.accepted
        /\ (pattern = PatDocs /\ path = PathSomewhereDocsFoo) => ~matched.accepted

AnchoredOnlyFromRootWitness ==
    /\ Queried
    /\ pattern = PatDocs
    /\ path = PathSomewhereDocsFoo
    /\ ~matched.accepted

(***************************************************************************)
(* C6 (SpecGlob).  A pattern without wildcards that ends with / and does   *)
(* not begin with / is prefixed with the any-depth prefix and accepts      *)
(* exactly the paths in which it occurs at the start of a path segment:    *)
(* apps/ accepts apps/test and anywhere/apps/test, not appsx/test.         *)
(***************************************************************************)
\* C6: a directory pattern not beginning with / accepts the paths under that directory at any depth.
DirectoryAnyDepth ==
    (Queried /\ ~Anchored(pattern) /\ EndsWith(pattern, "/")) =>
        /\ matchers[1].glob = AnyDepth \o pattern
        /\ matchers[2].glob = AnyDepth \o pattern \o <<"*", "*">>
        /\ IsLiteral(pattern) =>
              (matched.accepted <=> OccursAtSegment(pattern, path))
        /\ (pattern = PatApps /\ path \in {PathAppsTest, PathAnywhereAppsTest})
              => matched.accepted
        /\ (pattern = PatApps /\ path = PathAppsxTest) => ~matched.accepted

DirectoryAnyDepthWitness ==
    /\ Queried
    /\ pattern = PatApps
    /\ path = PathAnywhereAppsTest
    /\ matched.accepted

(***************************************************************************)
(* C7 (SpecGlob).  Every pattern has exactly two globs: the pattern, with  *)
(* the any-depth prefix or without, and that glob followed by ** when it   *)
(* ends with /, by /** when it does not.  So a pattern without wildcards   *)
(* that does not end with / accepts the path of that name and every path   *)
(* beneath it: /lib accepts /lib, /lib/systems and /lib/foo.               *)
(***************************************************************************)
\* C7: two globs per pattern, the pattern and its subtree variant; a name accepts itself and its subtree.
TwoGlobsWithSubtree ==
    matchers # <<>> =>
        /\ Len(matchers) = 2
        /\ matchers[1].glob \in {pattern, AnyDepth \o pattern}
        /\ matchers[2].glob =
              matchers[1].glob \o
                 (IF EndsWith(pattern, "/") THEN <<"*", "*">>
                                            ELSE <<"/", "*", "*">>)
        /\ (Queried /\ IsLiteral(pattern) /\ ~EndsWith(pattern, "/")) =>
              /\ path = pattern => matched.accepted
              /\ IsPrefix(pattern \o <<"/">>, path) => matched.accepted
        /\ (Queried /\ pattern = PatLib
              /\ path \in {PathLib, PathLibSystems, PathLibFoo})
              => matched.accepted

TwoGlobsWithSubtreeWitness ==
    /\ Queried
    /\ pattern = PatLib
    /\ path = PathLibSystems
    /\ matched.accepted

(***************************************************************************)
(* C8 (SpecOwner).  Owner::parse accepts every token: one that begins with *)
(* @ is a Handle, any other an Email, each carrying the token unchanged,   *)
(* and the Owner displays as the token.                                    *)
(***************************************************************************)
\* C8: Handle iff the token begins with @, Email otherwise, token unchanged, displayed as the token.
OwnerIsLexical ==
    /\ owner = None => ENABLED OwnerParseStep
    /\ owner # None =>
          /\ owner.value = token
          /\ owner.kind = (IF token # <<>> /\ token[1] = "@"
                           THEN "Handle" ELSE "Email")
    /\ rendered # None => rendered.value = token

OwnerIsLexicalWitness ==
    /\ rendered # None
    /\ token = <<"@", "a", "/", "a">>
    /\ owner.kind = "Handle"
    /\ rendered.value = token

(***************************************************************************)
(* C9 (SpecGlob).  As stated: a * stays within one path segment, so       *)
(* docs/* accepts docs/getting-started.md and somewhere/docs/readme.md     *)
(* but not docs/build-app/troubleshooting.md, and a pattern d/* accepts    *)
(* no path with a further / after the segment that follows d/.             *)
(***************************************************************************)
\* C9, as stated in the specification: docs/* accepts files directly in docs, not further nested ones.
StarStaysInSegment ==
    Queried =>
        /\ (pattern = PatDocsStar
              /\ path \in {PathDocsGettingStarted, PathSomewhereDocsReadme})
              => matched.accepted
        /\ (pattern = PatDocsStar /\ path = PathDocsBuildAppTroubleshooting)
              => ~matched.accepted
        /\ (pattern = <<"a", "/", "*">> /\ path = <<"a", "/", "b", "/", "a">>)
              => ~matched.accepted

(***************************************************************************)
(* C10 (SpecRule).  As stated: no glob of a pattern that begins with /    *)
(* begins with /.  Of the code: the leading / is kept, so every glob of    *)
(* such a pattern begins with / and the first glob is the pattern; the     *)
(* stored pattern is the text as written in both readings.                 *)
(***************************************************************************)
AnchoredRule == ruleResult # None /\ ruleResult.ok /\ Anchored(ruleResult.rule.pattern)

\* C10, as stated in the specification: no glob of a pattern beginning with / begins with /.
LeadingSlashStripped ==
    AnchoredRule =>
        /\ \A k \in 1..Len(ruleResult.rule.matchers) :
              ~StartsWith(ruleResult.rule.matchers[k].glob, "/")
        /\ ruleResult.rule.pattern = Runs(line, {" "})[1]

\* C10, amended: every glob of a pattern beginning with / begins with /; the first is the pattern.
LeadingSlashKept ==
    AnchoredRule =>
        /\ \A k \in 1..Len(ruleResult.rule.matchers) :
              StartsWith(ruleResult.rule.matchers[k].glob, "/")
        /\ ruleResult.rule.matchers[1].glob = ruleResult.rule.pattern
        /\ ruleResult.rule.pattern = Runs(line, {" "})[1]

LeadingSlashKeptWitness ==
    /\ AnchoredRule
    /\ Len(ruleResult.rule.pattern) > 1
    /\ Len(ruleResult.rule.matchers) = 2

====
